---- MODULE Spec2Model ----
(***************************************************************************)
(* Model of AudioProcessingService (src/audio_processing_service.py) and   *)
(* of VoiceCloningService with its ParlerTTSService                        *)
(* (src/voice_cloning_service.py, src/parler_tts_service.py).              *)
(*                                                                         *)
(* Spec         the enhancement pipeline: enhance_audio and                *)
(*              process_recorded_audio, one action per stage of a call,    *)
(*              over a file system of audio files.  A buffer is carried    *)
(*              as its length, its sample rate and the list of             *)
(*              transformations applied to it.                             *)
(* SpecAnalyze  analyze_audio with _estimate_noise_level and               *)
(*              _calculate_signal_quality on concrete sample buffers, in   *)
(*              fixed-point arithmetic.                                    *)
(* SpecDsp      the stage functions on concrete sample buffers:            *)
(*              _normalize_audio, _apply_compression, the trim of          *)
(*              trim_silence and the WAV decoding of                       *)
(*              process_recorded_audio.                                    *)
(* SpecConcurrent  enhance_audio, process_recorded_audio, trim_silence     *)
(*              and convert_format called concurrently on one service.     *)
(* SpecVoice    create_voice_profile, train_voice_model, delete_model and  *)
(*              list_available_models over the files of models_dir.        *)
(* SpecSynthesize  synthesize_speech called concurrently, with the clock   *)
(*              its output file name is taken from.                        *)
(***************************************************************************)
EXTENDS Integers, Sequences, FiniteSets, TLC

VARIABLES
    fs,        \* the file system: path -> file content
    calls,     \* the invocations of the service: call id -> its frame
    nextId,    \* the next value uuid.uuid4() yields
    an,        \* the analyze_audio invocation of SpecAnalyze
    svc,       \* the fields __init__ sets on the AudioProcessingService
    dsp,       \* the signal-processing function applied in SpecDsp
    vc         \* the models directory and the call of SpecVoice

vars == <<fs, calls, nextId, an, svc, dsp, vc>>

\* ------------------------------------------------------------------ bounds

\* invocations of the service in one behaviour
MaxCalls == 2

\* longest concrete sample buffer given to analyze_audio
MaxLen == 5

\* fixed-point arithmetic: the integer that stands for the amplitude 1.0
One == 100

\* longest click (one full-scale sample, then silence) given to the stages
MaxClick == 30

\* seconds the clock of SpecSynthesize advances
MaxClock == 2

\* --------------------------------------------------------------- constants

\* self.target_sample_rate
target_sample_rate == 22050

\* y / peak * 0.95: the headroom, in per cent
HeadroomPct == 95

\* target_rms = 0.2, in per cent
TargetRmsPct == 20

\* ratio = 4.0 of _apply_compression
ratio == 4

\* self.sample_rate of ParlerTTSService
sample_rate == 22050

\* savgol_filter(envelope, 101, 3): the window length
SavgolWindow == 101

\* 80 Hz high-pass, 2000-3000 Hz presence band, 8000 Hz low-pass
HighPassHz == 80
BoostLowHz == 2000
BoostHighHz == 3000
LowPassHz == 8000

\* filter orders of _reduce_noise's fallback and of _apply_voice_eq
FallbackOrder == 4
EqHighPassOrder == 2
EqBoostOrder == 2
EqLowPassOrder == 4

Calls == 1..MaxCalls

\* ------------------------------------------------------------ stage results

Ok(b) == [ok |-> TRUE, buf |-> b]

Apply(b, op) == [b EXCEPT !.ops = Append(@, op)]

\* scipy.signal.butter raises ValueError unless 0 < Wn < 1, Wn = hz / (sr / 2)
ButterRaises(hz, sr) == 2 * hz >= sr

\* scipy.signal.filtfilt raises ValueError unless len(x) > padlen,
\* padlen = 3 * max(len(a), len(b)), the number of coefficients
FiltfiltRaises(ncoef, len) == len <= 3 * ncoef

\* ----------------------------------------------------------------- service

\* __init__: self.target_sample_rate, self.upload_dir, self.processed_dir
Service ==
    [target_sample_rate |-> target_sample_rate,
     upload_dir |-> "uploads",
     processed_dir |-> "processed"]

\* no signal-processing function is under way
NoDsp == [pc |-> "off"]

\* no voice-cloning call is under way
NoVoice == [pc |-> "off"]

\* ------------------------------------------------------------------- paths

Path(dir, prefix, model, id) ==
    [dir |-> dir, prefix |-> prefix, model |-> model, id |-> id]

NoPath == Path("none", "none", 0, 0)

NoBuf == [len |-> 0, sr |-> 0, ops |-> <<>>, src |-> NoPath]

Raised == [ok |-> FALSE, buf |-> NoBuf]

\* a path the caller names that no file is stored under
MissingPath == Path("client", "missing", 0, 0)

AudioFile(len, sr, ops, src) ==
    [kind |-> "audio", len |-> len, sr |-> sr, ops |-> ops, src |-> src]

GarbageFile ==
    [kind |-> "garbage", len |-> 0, sr |-> 0, ops |-> <<>>, src |-> NoPath]

\* the recordings the file system holds before any call: lengths around the
\* filters' minimum input lengths, rates around the filters' cutoffs
InputShapes ==
    << <<200, 22050>>, <<200, 44100>>, <<200, 16000>>, <<200, 4000>>,
       <<200, 100>>, <<50, 16000>>, <<10, 16000>>, <<0, 16000>> >>

ClientPath(i) == Path("client", "file", 0, i)

GarbagePath == ClientPath(0)

InitialFiles ==
    [p \in {ClientPath(i) : i \in 0..Len(InputShapes)} |->
        IF p.id = 0 THEN GarbageFile
        ELSE AudioFile(InputShapes[p.id][1], InputShapes[p.id][2], <<>>, p)]

\* ------------------------------------------------------------------ stages

\* librosa.load(input_path, sr=None)
Load(files, path) ==
    IF path \in DOMAIN files /\ files[path].kind = "audio"
    THEN Ok([len |-> files[path].len, sr |-> files[path].sr,
             ops |-> <<>>, src |-> path])
    ELSE Raised

\* the except branch of _reduce_noise: butter(4, 80 / nyquist, 'high'), filtfilt
HighPassFallback(b) ==
    IF ButterRaises(HighPassHz, b.sr) \/ FiltfiltRaises(FallbackOrder + 1, b.len)
    THEN Raised
    ELSE Ok(Apply(b, "highpass_fallback"))

\* _reduce_noise; primaryFails: nr.reduce_noise raised
_reduce_noise(b, primaryFails) ==
    IF ~primaryFails THEN Ok(Apply(b, "noisereduce")) ELSE HighPassFallback(b)

\* _normalize_audio; np.max of an empty array raises ValueError
_normalize_audio(b) ==
    IF b.len = 0 THEN Raised ELSE Ok(Apply(b, "normalize"))

\* _apply_compression; savgol_filter (mode 'interp') raises ValueError when
\* the window is longer than the input
_apply_compression(b) ==
    IF b.len < SavgolWindow THEN Raised ELSE Ok(Apply(b, "compress"))

\* the low-pass of _apply_voice_eq is applied when 8000 / nyquist < 1.0
\* a test of the cutoff against the Nyquist frequency of the target rate
LowPassApplies_TargetRate(sr) == 2 * LowPassHz < target_sample_rate

LowPassApplies(sr) == 2 * LowPassHz < sr

\* _apply_voice_eq
_apply_voice_eq(b) ==
    IF \/ ButterRaises(HighPassHz, b.sr)
       \/ FiltfiltRaises(EqHighPassOrder + 1, b.len)
       \/ ButterRaises(BoostLowHz, b.sr)
       \/ ButterRaises(BoostHighHz, b.sr)
       \/ FiltfiltRaises(2 * EqBoostOrder + 1, b.len)
       \/ (LowPassApplies(b.sr) /\ FiltfiltRaises(EqLowPassOrder + 1, b.len))
    THEN Raised
    ELSE LET boosted == Apply(Apply(b, "highpass"), "boost")
         IN  Ok(IF LowPassApplies(b.sr) THEN Apply(boosted, "lowpass")
                ELSE boosted)

\* librosa.resample's output length: ceil(len * target_sr / orig_sr)
ResampledLen(len, sr, target) == (len * target + sr - 1) \div sr

\* a resampler that hands every buffer on as it is
Resample_PassThrough(b, envFails) == Ok(b)

\* step 5 of enhance_audio; envFails: librosa.resample raised
Resample(b, envFails) ==
    IF b.sr # svc.target_sample_rate
    THEN IF envFails THEN Raised
         ELSE Ok([Apply(b, "resample") EXCEPT
                    !.len = ResampledLen(b.len, b.sr, svc.target_sample_rate),
                    !.sr = svc.target_sample_rate])
    ELSE Ok(b)

\* the file sf.write(output_path, y_resampled, self.target_sample_rate) stores
EnhancedFile(b) == AudioFile(b.len, svc.target_sample_rate, b.ops, b.src)

\* a file name without the uuid: every call names the same file
EnhancedPath_NoUuid(id) == Path(svc.processed_dir, "enhanced", 0, 0)

\* f"enhanced_{uuid.uuid4()}.wav" under processed_dir
EnhancedPath(id) == Path(svc.processed_dir, "enhanced", 0, id)

\* f"recording_{model_id}_{uuid.uuid4()}.wav" under upload_dir
RawPath(model_id, id) == Path(svc.upload_dir, "recording", model_id, id)

\* ---------------------------------------------------------------- payloads

Payload(b64, fmt, len, sr, model_id) ==
    [b64 |-> b64, fmt |-> fmt, len |-> len, sr |-> sr, model_id |-> model_id]

NoPayload == Payload(FALSE, "none", 0, 0, 0)

PayloadShapes == { <<200, 22050>>, <<200, 44100>>, <<50, 16000>>, <<0, 16000>> }

\* what a client posts: text that is not base64, bytes that are no audio, a
\* WAV file, or audio in another container
Payloads ==
    {Payload(FALSE, "garbage", 0, 0, 1), Payload(TRUE, "garbage", 0, 0, 1)}
    \cup {Payload(TRUE, fmt, s[1], s[2], 1) :
            fmt \in {"wav", "other"}, s \in PayloadShapes}

\* a decoder whose fallback yields an empty signal for bytes that are no audio
DecodePayload_LenientFallback(p) ==
    IF ~p.b64 THEN Raised
    ELSE Ok([len |-> p.len, sr |-> p.sr, ops |-> <<>>, src |-> NoPath])

\* lines 245-262 of process_recorded_audio: b64decode, wavfile.read and, when
\* that raises, librosa.load
DecodePayload(p) ==
    IF ~p.b64 THEN Raised
    ELSE IF p.fmt \in {"wav", "other"}
         THEN Ok([len |-> p.len, sr |-> p.sr, ops |-> <<>>, src |-> NoPath])
         ELSE Raised

\* ------------------------------------------------------------------ frames

IdleFrame ==
    [op |-> "none", pc |-> "idle", input_path |-> NoPath, payload |-> NoPayload,
     buf |-> NoBuf, trail |-> <<>>, failed |-> "none", outcome |-> "none",
     result |-> NoPath, wrote |-> {}]

\* return of enhance_audio; process_recorded_audio returns what it returns
EnhanceReturn(f, path) ==
    [f EXCEPT !.pc = "done", !.outcome = "returned", !.result = path]

\* an except clause of enhance_audio that raises to the caller
EnhanceExcept_Reraise(f, stage) ==
    [f EXCEPT !.pc = "done", !.outcome = "raised", !.failed = stage]

\* an except clause of enhance_audio that returns no path
EnhanceExcept_ReturnsNone(f, stage) ==
    [EnhanceReturn(f, NoPath) EXCEPT !.failed = stage]

\* the except clause of enhance_audio
EnhanceExcept(f, stage) ==
    [EnhanceReturn(f, f.input_path) EXCEPT !.failed = stage]

\* the except clause of process_recorded_audio
ProcessExcept(f, stage) ==
    [f EXCEPT !.pc = "done", !.outcome = "raised", !.failed = stage]

\* a stage of enhance_audio ran: its output is the next stage's input
StageDone(f, stage, r, next) ==
    IF r.ok
    THEN [f EXCEPT !.buf = r.buf, !.trail = Append(@, stage), !.pc = next]
    ELSE EnhanceExcept(f, stage)

\* enhance_audio with the normalizer and the compressor exchanged
NextStage_Swapped(stage) ==
    CASE stage = "load" -> "nr"
      [] stage = "nr" -> "compress"
      [] stage = "compress" -> "normalize"
      [] stage = "normalize" -> "eq"
      [] stage = "eq" -> "resample"
      [] stage = "resample" -> "write"

\* the order of the statements of enhance_audio
NextStage(stage) ==
    CASE stage = "load" -> "nr"
      [] stage = "nr" -> "normalize"
      [] stage = "normalize" -> "compress"
      [] stage = "compress" -> "eq"
      [] stage = "eq" -> "resample"
      [] stage = "resample" -> "write"

\* ----------------------------------------------------------------- actions

\* calls are numbered in the order they arrive, and a handler runs to
\* completion before the next request is served
Admit(c) ==
    /\ calls[c].pc = "idle"
    /\ \A d \in Calls : d < c => calls[d].pc = "done"

StartEnhance(c) ==
    /\ Admit(c)
    /\ \E p \in DOMAIN fs \cup {MissingPath} :
          calls' = [calls EXCEPT ![c] =
                      [IdleFrame EXCEPT !.op = "enhance_audio", !.pc = "load",
                                        !.input_path = p]]
    /\ UNCHANGED <<fs, nextId, an, svc, dsp, vc>>

StartProcess(c) ==
    /\ Admit(c)
    /\ \E p \in Payloads :
          calls' = [calls EXCEPT ![c] =
                      [IdleFrame EXCEPT !.op = "process_recorded_audio",
                                        !.pc = "p_decode", !.payload = p]]
    /\ UNCHANGED <<fs, nextId, an, svc, dsp, vc>>

Decode(c) ==
    /\ calls[c].pc = "p_decode"
    /\ LET r == DecodePayload(calls[c].payload)
       IN  calls' = [calls EXCEPT ![c] =
                       IF r.ok THEN [@ EXCEPT !.buf = r.buf, !.pc = "p_write"]
                       ELSE ProcessExcept(@, "decode")]
    /\ UNCHANGED <<fs, nextId, an, svc, dsp, vc>>

\* lines 265-267; ioFails: sf.write raised
WriteRaw(c) ==
    /\ calls[c].pc = "p_write"
    /\ nextId' = nextId + 1
    /\ \E ioFails \in BOOLEAN :
          LET f == calls[c]
              raw_path == RawPath(f.payload.model_id, nextId)
          IN  IF ioFails
              THEN /\ calls' = [calls EXCEPT ![c] = ProcessExcept(f, "write_raw")]
                   /\ fs' = fs
              ELSE /\ fs' = [p \in DOMAIN fs \cup {raw_path} |->
                               IF p = raw_path
                               THEN AudioFile(f.buf.len, f.buf.sr, <<>>, raw_path)
                               ELSE fs[p]]
                   /\ calls' = [calls EXCEPT ![c] =
                                  [f EXCEPT !.input_path = raw_path,
                                            !.wrote = @ \cup {raw_path},
                                            !.buf = NoBuf, !.pc = "load"]]
    /\ UNCHANGED <<an, svc, dsp, vc>>

LoadStep(c) ==
    /\ calls[c].pc = "load"
    /\ calls' = [calls EXCEPT ![c] =
                   StageDone(@, "load", Load(fs, @.input_path), NextStage("load"))]
    /\ UNCHANGED <<fs, nextId, an, svc, dsp, vc>>

NoiseStep(c) ==
    /\ calls[c].pc = "nr"
    /\ \E primaryFails \in BOOLEAN :
          calls' = [calls EXCEPT ![c] =
                      StageDone(@, "nr", _reduce_noise(@.buf, primaryFails),
                                NextStage("nr"))]
    /\ UNCHANGED <<fs, nextId, an, svc, dsp, vc>>

NormalizeStep(c) ==
    /\ calls[c].pc = "normalize"
    /\ calls' = [calls EXCEPT ![c] =
                   StageDone(@, "normalize", _normalize_audio(@.buf),
                             NextStage("normalize"))]
    /\ UNCHANGED <<fs, nextId, an, svc, dsp, vc>>

CompressStep(c) ==
    /\ calls[c].pc = "compress"
    /\ calls' = [calls EXCEPT ![c] =
                   StageDone(@, "compress", _apply_compression(@.buf),
                             NextStage("compress"))]
    /\ UNCHANGED <<fs, nextId, an, svc, dsp, vc>>

EqStep(c) ==
    /\ calls[c].pc = "eq"
    /\ calls' = [calls EXCEPT ![c] =
                   StageDone(@, "eq", _apply_voice_eq(@.buf), NextStage("eq"))]
    /\ UNCHANGED <<fs, nextId, an, svc, dsp, vc>>

ResampleStep(c) ==
    /\ calls[c].pc = "resample"
    /\ \E envFails \in BOOLEAN :
          calls' = [calls EXCEPT ![c] =
                      StageDone(@, "resample", Resample(@.buf, envFails),
                                NextStage("resample"))]
    /\ UNCHANGED <<fs, nextId, an, svc, dsp, vc>>

\* lines 150-154; ioFails: sf.write raised
WriteStep(c) ==
    /\ calls[c].pc = "write"
    /\ nextId' = nextId + 1
    /\ \E ioFails \in BOOLEAN :
          LET f == calls[c]
              output_path == EnhancedPath(nextId)
          IN  IF ioFails
              THEN /\ calls' = [calls EXCEPT ![c] = EnhanceExcept(f, "write")]
                   /\ fs' = fs
              ELSE /\ fs' = [p \in DOMAIN fs \cup {output_path} |->
                               IF p = output_path THEN EnhancedFile(f.buf)
                               ELSE fs[p]]
                   /\ calls' = [calls EXCEPT ![c] =
                                  EnhanceReturn(
                                    [f EXCEPT !.trail = Append(@, "write"),
                                              !.wrote = @ \cup {output_path}],
                                    output_path)]
    /\ UNCHANGED <<an, svc, dsp, vc>>

\* ------------------------------------------------- fixed-point arithmetic
\* A float is a record: NaN, or a number of units of 1/One (of 1 Hz for a
\* frequency).  Division and square root round down.

F(v) == [nan |-> FALSE, v |-> v]

NaN == [nan |-> TRUE, v |-> 0]

\* Python's min(a, b): b when b < a, else a; a comparison with NaN is False
PyMin(a, b) == IF ~a.nan /\ ~b.nan /\ b.v < a.v THEN b ELSE a

Abs(x) == IF x < 0 THEN -x ELSE x

Min(a, b) == IF b < a THEN b ELSE a

\* the largest r with r * r <= n, found bit by bit from 2^14 down
RECURSIVE SqrtBits(_, _, _)
SqrtBits(n, r, bit) ==
    IF bit = 0 THEN r
    ELSE SqrtBits(n, IF (r + bit) * (r + bit) <= n THEN r + bit ELSE r,
                  bit \div 2)

\* floor of the square root
ISqrt(n) == SqrtBits(n, 0, 16384)

RECURSIVE Sum(_)
Sum(s) == IF s = <<>> THEN 0 ELSE Head(s) + Sum(Tail(s))

Squares(s) == [i \in 1..Len(s) |-> s[i] * s[i]]

SeqMax(s) == CHOOSE m \in {s[i] : i \in 1..Len(s)} : \A i \in 1..Len(s) : s[i] <= m

SeqMin(s) == CHOOSE m \in {s[i] : i \in 1..Len(s)} : \A i \in 1..Len(s) : m <= s[i]

\* np.mean of a non-empty array
Mean(s) == Sum(s) \div Len(s)

\* np.sqrt(np.mean(x**2)); np.mean of an empty array is NaN
Rms(s) == IF s = <<>> THEN NaN ELSE F(ISqrt(Mean(Squares(s))))

\* np.std
Std(s) == LET m == Mean(s)
          IN  ISqrt(Mean([i \in 1..Len(s) |-> (s[i] - m) * (s[i] - m)]))

\* --------------------------------------------------------- librosa framing
\* librosa frames a signal in windows of 2048 samples every 512 samples,
\* centred by padding 1024 samples on each side; the model keeps the scheme
\* with windows of 4 samples every sample and a padding of 2.

ZeroPadded(y) == <<0, 0>> \o y \o <<0, 0>>

\* np.pad(mode="edge") of a non-empty signal
EdgePadded(y) == <<y[1], y[1]>> \o y \o <<y[Len(y)], y[Len(y)]>>

NumFrames(y) == 1 + Len(y)

Frame(padded, t) == SubSeq(padded, t, t + 3)

\* librosa.feature.rms(y=y)[0]
FrameRms(y) ==
    [t \in 1..NumFrames(y) |-> ISqrt(Mean(Squares(Frame(ZeroPadded(y), t))))]

\* |DFT| of one frame under the Hann window (0, 1/2, 1, 1/2), bins 0, 1, 2
FrameMagnitude(x) ==
    << Abs(x[2] + 2 * x[3] + x[4]) \div 2,
       ISqrt(4 * x[3] * x[3] + (x[4] - x[2]) * (x[4] - x[2])) \div 2,
       Abs(2 * x[3] - x[2] - x[4]) \div 2 >>

\* np.abs(librosa.stft(y)), frame by frame
Magnitude(y) ==
    [t \in 1..NumFrames(y) |-> FrameMagnitude(Frame(ZeroPadded(y), t))]

RECURSIVE Flatten(_)
Flatten(ss) == IF ss = <<>> THEN <<>> ELSE Head(ss) \o Flatten(Tail(ss))

\* librosa.fft_frequencies: the centre frequencies of bins 0, 1, 2
BinFrequencies(sr) == <<0, sr \div 4, sr \div 2>>

\* one frame of librosa.feature.spectral_centroid
FrameCentroid(m, sr) ==
    LET fr == BinFrequencies(sr)
        total == Sum(m)
    IN  IF total = 0 THEN 0
        ELSE Sum([k \in 1..3 |-> fr[k] * m[k]]) \div total

\* one frame of librosa.feature.spectral_bandwidth (p = 2)
FrameBandwidth(m, sr) ==
    LET fr == BinFrequencies(sr)
        total == Sum(m)
        c == FrameCentroid(m, sr)
    IN  IF total = 0 THEN 0
        ELSE ISqrt(Sum([k \in 1..3 |-> (fr[k] - c) * (fr[k] - c) * m[k]])
                   \div total)

\* one frame of librosa.feature.spectral_rolloff (roll_percent = 0.85)
FrameRolloff(m, sr) ==
    LET fr == BinFrequencies(sr)
        cum == [k \in 1..3 |-> Sum(SubSeq(m, 1, k))]
    IN  fr[CHOOSE k \in 1..3 :
              /\ 100 * cum[k] >= 85 * cum[3]
              /\ \A j \in 1..(k - 1) : 100 * cum[j] < 85 * cum[3]]

\* np.signbit
SignBit(x) == x < 0

\* one frame of librosa.feature.zero_crossing_rate
FrameZcr(x) ==
    (Cardinality({k \in 2..4 : SignBit(x[k]) # SignBit(x[k - 1])}) * One) \div 4

\* --------------------------------------------------------------- analysis

\* int(min(0.5, len(y) / sr / 4) * sr), in exact arithmetic
NoiseSamples(y, sr) ==
    IF Len(y) <= 2 * sr THEN Len(y) \div 4 ELSE sr \div 2

\* the value returned when noise_samples is 0
NoiseFallback == F(One \div 10)

\* the noise RMS returned without the clamp
ClampNoise_Unclamped(noise_rms) == noise_rms

\* min(noise_rms, 1.0)
ClampNoise(noise_rms) == PyMin(noise_rms, F(One))

_estimate_noise_level(y, sr) ==
    LET noise_samples == NoiseSamples(y, sr)
    IN  IF noise_samples > 0
        THEN LET noise_start == SubSeq(y, 1, noise_samples)
                 noise_end == SubSeq(y, Len(y) - noise_samples + 1, Len(y))
                 noise_reference == noise_start \o noise_end
             IN  ClampNoise(Rms(noise_reference))
        ELSE NoiseFallback

\* an SNR sub-score that is 0 when the noise level is 0
SnrScore_ZeroWithoutNoise(signal_rms, noise_level) ==
    IF ~noise_level.nan /\ noise_level.v > 0
    THEN IF signal_rms.nan THEN NaN
         ELSE PyMin(F(((signal_rms.v * One) \div noise_level.v) \div 10), F(One))
    ELSE F(0)

\* lines 103-108: the SNR sub-score
SnrScore(signal_rms, noise_level) ==
    IF ~noise_level.nan /\ noise_level.v > 0
    THEN IF signal_rms.nan THEN NaN
         ELSE PyMin(F(((signal_rms.v * One) \div noise_level.v) \div 10), F(One))
    ELSE F(One)

\* lines 111-113: the dynamic-range sub-score
DynamicScore(rms) == PyMin(F((SeqMax(rms) - SeqMin(rms)) * 10), F(One))

\* lines 116-119: the spectral-clarity sub-score; the 1e-8 added to the
\* deviation is below the resolution, so it only decides the quotient when
\* the deviation is 0: 0 for a zero mean, above 100 otherwise
ClarityScore(magnitude) ==
    LET m == Flatten(magnitude)
        mean == Mean(m)
        std == Std(m)
    IN  IF std = 0 THEN (IF mean = 0 THEN F(0) ELSE F(One))
        ELSE PyMin(F(((mean * One) \div std) \div 100), F(One))

\* line 122: snr_score * 0.5 + dynamic_score * 0.3 + clarity_score * 0.2
Combine(snr_score, dynamic_score, clarity_score) ==
    IF snr_score.nan \/ dynamic_score.nan \/ clarity_score.nan THEN NaN
    ELSE F((5 * snr_score.v + 3 * dynamic_score.v + 2 * clarity_score.v) \div 10)

\* _calculate_signal_quality; emptyRaises: librosa raises on an empty signal
\* (it does where it pads by reflection) instead of padding it with zeros
_calculate_signal_quality(y, sr, noise_level, emptyRaises) ==
    IF y = <<>> /\ emptyRaises
    THEN [raised |-> TRUE, snr_score |-> NaN, dynamic_score |-> NaN,
          clarity_score |-> NaN, quality |-> NaN]
    ELSE LET snr_score == SnrScore(Rms(y), noise_level)
             dynamic_score == DynamicScore(FrameRms(y))
             clarity_score == ClarityScore(Magnitude(y))
             quality == Combine(snr_score, dynamic_score, clarity_score)
         IN  [raised |-> FALSE, snr_score |-> snr_score,
              dynamic_score |-> dynamic_score, clarity_score |-> clarity_score,
              quality |-> PyMin(quality, F(One))]

\* len(y) / sr, kept as the fraction
Duration(y, sr) == [num |-> Len(y), den |-> sr]

ZeroDuration == [num |-> 0, den |-> 1]

\* the record of the except clause of analyze_audio
ErrorRecord ==
    [error |-> "str(e)", duration |-> ZeroDuration, sample_rate |-> 0,
     noise_level |-> F(One), signal_quality |-> F(0)]

\* the record analyze_audio returns for a decoded signal
Metrics(y, sr) ==
    LET rms == FrameRms(y)
        magnitude == Magnitude(y)
        noise_level == _estimate_noise_level(y, sr)
        signal_quality == _calculate_signal_quality(y, sr, noise_level, FALSE)
        frames == 1..NumFrames(y)
    IN  [duration |-> Duration(y, sr),
         sample_rate |-> sr,
         channels |-> 1,
         avg_rms |-> F(Mean(rms)),
         noise_level |-> noise_level,
         signal_quality |-> signal_quality.quality,
         spectral_centroid |->
             F(Mean([t \in frames |-> FrameCentroid(magnitude[t], sr)])),
         spectral_bandwidth |->
             F(Mean([t \in frames |-> FrameBandwidth(magnitude[t], sr)])),
         spectral_rolloff |->
             F(Mean([t \in frames |-> FrameRolloff(magnitude[t], sr)])),
         zero_crossing_rate |->
             F(IF y = <<>> THEN 0
               ELSE Mean([t \in frames |-> FrameZcr(Frame(EdgePadded(y), t))])),
         dynamic_range |-> F(SeqMax(rms) - SeqMin(rms))]

\* return of analyze_audio
AnalyzeReturn(record) == [raised |-> FALSE, record |-> record]

\* an except clause of analyze_audio that raises to the caller
AnalyzeExcept_Reraise == [raised |-> TRUE, record |-> ErrorRecord]

\* the except clause of analyze_audio
AnalyzeExcept == AnalyzeReturn(ErrorRecord)

\* analyze_audio; file: what file_path holds; emptyRaises: as above
analyze_audio(file, emptyRaises) ==
    IF file.kind # "audio" THEN AnalyzeExcept
    ELSE IF file.y = <<>> /\ emptyRaises THEN AnalyzeExcept
    ELSE AnalyzeReturn(Metrics(file.y, file.sr))

\* ------------------------------------------------------- analysis: inputs

\* amplitudes -1.5, 0 and 0.4
Samples == {-((3 * One) \div 2), 0, (2 * One) \div 5}

AnalyzeRates == {1, 2, 8}

RECURSIVE Buffers(_)
Buffers(n) ==
    IF n = 0 THEN {<<>>}
    ELSE LET shorter == Buffers(n - 1)
         IN  shorter \cup {Append(b, x) : b \in {s \in shorter : Len(s) = n - 1},
                                          x \in Samples}

SampleFile(y, sr) == [kind |-> "audio", y |-> y, sr |-> sr]

UndecodableFile == [kind |-> "garbage", y |-> <<>>, sr |-> 0]

AnalyzeInputs ==
    {UndecodableFile}
    \cup {SampleFile(y, sr) : y \in Buffers(MaxLen), sr \in AnalyzeRates}

\* noise levels handed to _calculate_signal_quality: 0, 0.01, 0.1 and 1.0
NoiseLevels == {F(0), F(1), F(One \div 10), F(One)}

NoAnalysis == [pc |-> "off"]

NoOutput == [raised |-> FALSE]

AnalysisOf(file) ==
    [pc |-> "start", file |-> file, noise_in |-> F(0), empty_raises |-> FALSE,
     out |-> NoOutput]

\* a call of analyze_audio on the file
AnalyzeAudio ==
    /\ an.pc = "start"
    /\ \E emptyRaises \in BOOLEAN :
          an' = [an EXCEPT !.pc = "analyzed", !.empty_raises = emptyRaises,
                           !.out = analyze_audio(an.file, emptyRaises)]
    /\ UNCHANGED <<fs, calls, nextId, svc, dsp, vc>>

\* a call of _estimate_noise_level on the decoded signal
EstimateNoise ==
    /\ an.pc = "start"
    /\ an.file.kind = "audio"
    /\ an' = [an EXCEPT !.pc = "estimated",
                        !.out = _estimate_noise_level(an.file.y, an.file.sr)]
    /\ UNCHANGED <<fs, calls, nextId, svc, dsp, vc>>

\* a call of _calculate_signal_quality on the decoded signal
SignalQuality ==
    /\ an.pc = "start"
    /\ an.file.kind = "audio"
    /\ \E nl \in NoiseLevels, emptyRaises \in BOOLEAN :
          an' = [an EXCEPT !.pc = "scored", !.noise_in = nl,
                           !.empty_raises = emptyRaises,
                           !.out = _calculate_signal_quality(
                                       an.file.y, an.file.sr, nl, emptyRaises)]
    /\ UNCHANGED <<fs, calls, nextId, svc, dsp, vc>>

InitAnalyze ==
    /\ fs = InitialFiles
    /\ calls = [c \in Calls |-> IdleFrame]
    /\ nextId = 1
    /\ an \in {AnalysisOf(file) : file \in AnalyzeInputs}
    /\ svc = Service
    /\ dsp = NoDsp
    /\ vc = NoVoice

NextAnalyze == AnalyzeAudio \/ EstimateNoise \/ SignalQuality

SpecAnalyze == InitAnalyze /\ [][NextAnalyze]_vars

\* ------------------------------------------------------- signal processing

\* the integer that stands for the amplitude 1.0 inside the enhancement
\* stages: finer than One, so that a gain applied twice keeps its digits
Unit == One * One

\* a buffer of Samples in the finer scale
ToUnit(y) == [i \in 1..Len(y) |-> y[i] * One]

\* division that rounds towards zero, as the magnitude of a float does
Quot(a, b) == IF a < 0 THEN -((-a) \div b) ELSE a \div b

Magnitudes(y) == [i \in 1..Len(y) |-> Abs(y[i])]

\* what a stage hands back: an array, or the exception it raised
Returned(y) == [ok |-> TRUE, y |-> y]

StageRaised == [ok |-> FALSE, y |-> <<>>]

\* peak = np.max(np.abs(y)); y / peak * 0.95 if peak > 0 else y
PeakStep(y) ==
    LET peak == SeqMax(Magnitudes(y))
    IN  IF peak > 0
        THEN [i \in 1..Len(y) |->
                Quot(Quot(y[i] * Unit, peak) * HeadroomPct, 100)]
        ELSE y

\* an RMS step that measures the buffer the peak step was given, and only
\* ever attenuates
RmsStep_MeasuresInput(y, y_normalized) ==
    LET target_rms == (Unit * TargetRmsPct) \div 100
        current_rms == ISqrt(Mean(Squares(y)))
    IN  IF current_rms > target_rms
        THEN LET rms_factor == Quot(target_rms * Unit, current_rms)
             IN  [i \in 1..Len(y) |-> Quot(y_normalized[i] * rms_factor, Unit)]
        ELSE y_normalized

\* current_rms = np.sqrt(np.mean(y_normalized**2)); when it is positive,
\* y_normalized * (target_rms / current_rms)
RmsStep(y, y_normalized) ==
    LET target_rms == (Unit * TargetRmsPct) \div 100
        current_rms == ISqrt(Mean(Squares(y_normalized)))
    IN  IF current_rms > 0
        THEN LET rms_factor == Quot(target_rms * Unit, current_rms)
             IN  [i \in 1..Len(y) |-> Quot(y_normalized[i] * rms_factor, Unit)]
        ELSE y_normalized

\* _normalize_audio on samples; np.max of an empty array raises ValueError
NormalizeSamples(y) ==
    IF y = <<>> THEN StageRaised
    ELSE Returned(RmsStep(y, PeakStep(y)))

\* the rows of the least-squares cubic fit over five points, times 70: row k
\* evaluates the fit at the k-th point of the window (five points of the
\* model stand for the 101 of savgol_filter(envelope, 101, 3))
SavgolRows ==
    << <<69, 4, -6, 4, -1>>,
       <<4, 54, 24, -16, 4>>,
       <<-6, 24, 34, 24, -6>>,
       <<4, -16, 24, 54, 4>>,
       <<-1, 4, -6, 4, 69>> >>

SmoothWindow == Len(SavgolRows)

Dot(a, b) == Sum([i \in 1..Len(a) |-> a[i] * b[i]])

\* scipy.signal.savgol_filter(x, window, 3), mode "interp": the middle row
\* slides over the interior, the first and last half windows are read off
\* the fit to the first and last window; raises when x is shorter than the
\* window
SavgolFilter(x) ==
    LET n == Len(x)
        half == SmoothWindow \div 2
        Smoothed(i) ==
            IF i <= half
            THEN Dot(SavgolRows[i], SubSeq(x, 1, SmoothWindow))
            ELSE IF i > n - half
                 THEN Dot(SavgolRows[SmoothWindow - (n - i)],
                          SubSeq(x, n - SmoothWindow + 1, n))
                 ELSE Dot(SavgolRows[half + 1], SubSeq(x, i - half, i + half))
    IN  IF n < SmoothWindow THEN StageRaised
        ELSE Returned([i \in 1..n |-> Quot(Smoothed(i), 70)])

\* a curve that expands what lies above the threshold
CompressCurve_Expands(e) ==
    LET threshold == Unit \div 2
    IN  IF e > threshold THEN threshold + (e - threshold) * ratio ELSE e

\* np.where(envelope_smooth > threshold,
\*          threshold + (envelope_smooth - threshold) / ratio, envelope_smooth)
CompressCurve(e) ==
    LET threshold == Unit \div 2
    IN  IF e > threshold THEN threshold + Quot(e - threshold, ratio) ELSE e

\* np.where(envelope_smooth > 0, compressed / envelope_smooth, 1.0)
Gain(e) == IF e > 0 THEN Quot(CompressCurve(e) * Unit, e) ELSE Unit

\* _apply_compression on samples: the smoothed envelope, the gain and y * gain
CompressSamples(y) ==
    LET smooth == SavgolFilter(Magnitudes(y))
        gain == [i \in 1..Len(y) |-> Gain(smooth.y[i])]
    IN  IF ~smooth.ok
        THEN [ok |-> FALSE, y |-> <<>>, envelope_smooth |-> <<>>, gain |-> <<>>]
        ELSE [ok |-> TRUE,
              y |-> [i \in 1..Len(y) |-> Quot(y[i] * gain[i], Unit)],
              envelope_smooth |-> smooth.y,
              gain |-> gain]

\* 10 ** (top_db / 20), the amplitude ratio of top_db decibels
RECURSIVE AmplitudeRatio(_)
AmplitudeRatio(top_db) ==
    IF top_db <= 0 THEN 1 ELSE 10 * AmplitudeRatio(top_db - 20)

\* np.maximum(amin, magnitude) of librosa.amplitude_to_db, amin = 1e-5, in
\* tenths of a unit
Floored(rms) == IF 10 * rms < Unit \div 1000 THEN Unit \div 1000 ELSE 10 * rms

\* _signal_to_frame_nonsilent: the frames whose RMS, in decibels relative to
\* ref = np.max of the frames' RMS, lies above -top_db
NonSilentFrames(y, top_db) ==
    LET mse == FrameRms(y)
        ref == SeqMax(mse)
    IN  {t \in 1..Len(mse) :
            AmplitudeRatio(top_db) * Floored(mse[t]) > Floored(ref)}

\* librosa.effects.trim(y, top_db): y[start:end] from the first non-silent
\* frame to the end of the last one, frames of the model one sample apart
Trim(y, top_db) ==
    LET nonzero == NonSilentFrames(y, top_db)
        first == CHOOSE t \in nonzero : \A u \in nonzero : t <= u
        last == CHOOSE t \in nonzero : \A u \in nonzero : u <= t
    IN  IF nonzero = {} THEN <<>>
        ELSE SubSeq(y, first, Min(Len(y), last))

\* a hum: every sample at 0.005, 46 dB below full scale
Hum(n) == [i \in 1..n |-> Unit \div 200]

\* a sample of a WAV payload: the number m * 2^e
Sample(m, e) == [m |-> m, e |-> e]

\* what scipy.io.wavfile.read returns: an array and its dtype
WavArray(dtype, y) == [dtype |-> dtype, y |-> y]

NoWav == WavArray("none", <<>>)

\* y.astype(np.float32): the same numbers, the dtype float32
AsFloat32(a) == WavArray("float32", a.y)

\* y / 2.0 ** bits
Divided(a, bits) ==
    WavArray(a.dtype, [i \in 1..Len(a.y) |-> Sample(a.y[i].m, a.y[i].e - bits)])

\* lines 253-258 of process_recorded_audio: the conversion to float32 comes
\* first, the tests of the dtype after it
DecodeWav(a) ==
    LET y == AsFloat32(a)
    IN  IF y.dtype = "int16" THEN Divided(y, 15)
        ELSE IF y.dtype = "int32" THEN Divided(y, 31)
        ELSE y

\* the mantissas of the samples: the extremes of 16 bits, half scale, one
\* step and zero
Mantissas == {-32768, -1, 0, 16384, 32767}

\* the exponent of the samples of a dtype: 16-bit integers, 32-bit integers
\* in steps of 2^16, floats in steps of 2^-15
DtypeExponent(dtype) ==
    CASE dtype = "int16" -> 0
      [] dtype = "int32" -> 16
      [] dtype = "float32" -> -15

WavArrays ==
    {WavArray(dtype, [i \in 1..Len(ms) |-> Sample(ms[i], DtypeExponent(dtype))]) :
        dtype \in {"int16", "int32", "float32"},
        ms \in {<<m>> : m \in Mantissas}
               \cup {<<m, n>> : m \in Mantissas, n \in Mantissas}}

\* a click: one full-scale sample and then silence
Click(n) == [i \in 1..n |-> IF i = 1 THEN Unit ELSE 0]

\* the buffers the stages are applied to
DspInputs ==
    {ToUnit(y) : y \in Buffers(MaxLen)}
    \cup {Click(n) : n \in 1..MaxClick}
    \cup {Hum(n) : n \in 1..MaxLen}

DspOf(y) ==
    [pc |-> "input", y |-> y, out |-> StageRaised, again |-> StageRaised,
     envelope_smooth |-> <<>>, gain |-> <<>>, threshold_db |-> -40,
     wav |-> NoWav]

WavOf(a) == [DspOf(<<>>) EXCEPT !.pc = "payload", !.wav = a]

\* y_normalized = self._normalize_audio(y_denoised)
Normalize ==
    /\ dsp.pc = "input"
    /\ dsp' = [dsp EXCEPT !.pc = "normalized", !.out = NormalizeSamples(dsp.y)]
    /\ UNCHANGED <<fs, calls, nextId, an, svc, vc>>

\* the normalizer applied to its own output; a raised call has none
NormalizeAgain ==
    /\ dsp.pc = "normalized"
    /\ dsp' = [dsp EXCEPT
                 !.pc = "renormalized",
                 !.again = IF dsp.out.ok THEN NormalizeSamples(dsp.out.y)
                           ELSE StageRaised]
    /\ UNCHANGED <<fs, calls, nextId, an, svc, vc>>

\* y_compressed = self._apply_compression(y_normalized)
Compress ==
    /\ dsp.pc = "input"
    /\ LET r == CompressSamples(dsp.y)
       IN  dsp' = [dsp EXCEPT !.pc = "compressed",
                              !.out = [ok |-> r.ok, y |-> r.y],
                              !.envelope_smooth = r.envelope_smooth,
                              !.gain = r.gain]
    /\ UNCHANGED <<fs, calls, nextId, an, svc, vc>>

\* y_trimmed, _ = librosa.effects.trim(y, top_db=-threshold_db)
TrimSilence ==
    /\ dsp.pc = "input"
    /\ \E threshold_db \in {-40, -20} :
          dsp' = [dsp EXCEPT !.pc = "trimmed",
                             !.threshold_db = threshold_db,
                             !.out = Returned(Trim(dsp.y, -threshold_db))]
    /\ UNCHANGED <<fs, calls, nextId, an, svc, vc>>

\* sr, y = wavfile.read(audio_io) and the scaling that follows
DecodeStep ==
    /\ dsp.pc = "payload"
    /\ dsp' = [dsp EXCEPT !.pc = "decoded", !.out = Returned(DecodeWav(dsp.wav).y)]
    /\ UNCHANGED <<fs, calls, nextId, an, svc, vc>>

InitDsp ==
    /\ fs = InitialFiles
    /\ calls = [c \in Calls |-> IdleFrame]
    /\ nextId = 1
    /\ an = NoAnalysis
    /\ svc = Service
    /\ dsp \in {DspOf(y) : y \in DspInputs} \cup {WavOf(a) : a \in WavArrays}
    /\ vc = NoVoice

NextDsp ==
    Normalize \/ NormalizeAgain \/ Compress \/ TrimSilence \/ DecodeStep

SpecDsp == InitDsp /\ [][NextDsp]_vars

\* ------------------------------------------------------------ voice cloning
\* VoiceCloningService and the ParlerTTSService it owns, over the files of
\* models_dir: per model name a profile ({name}_profile.json: absent, valid
\* JSON, or text that is no JSON) and a reference ({name}_reference.wav).

ModelNames == {"anna", "ben"}

ModelFiles(profile, reference) == [profile |-> profile, reference |-> reference]

EmptyModelsDir == [n \in ModelNames |-> ModelFiles("absent", FALSE)]

\* the audio_files a caller passes: each names a recording, a file that is
\* no audio, or no file at all
FileLists ==
    {<<>>, <<"missing">>, <<"audio">>, <<"missing", "audio">>,
     <<"audio", "audio">>, <<"garbage">>}

\* os.path.exists(audio_file)
Exists(file) == file # "missing"

Existing(audio_files) == SelectSeq(audio_files, Exists)

\* the methods AudioProcessingService defines
AudioProcessingMethods ==
    {"analyze_audio", "_estimate_noise_level", "_calculate_signal_quality",
     "enhance_audio", "_reduce_noise", "_normalize_audio", "_apply_compression",
     "_apply_voice_eq", "process_recorded_audio", "convert_format",
     "trim_silence", "get_audio_info"}

\* the call a method of the voice services has ended with
VoiceCall(op, name, outcome) ==
    [op |-> op, name |-> name, outcome |-> outcome, audio_files |-> <<>>,
     failure |-> "none", existed |-> FALSE, deleted |-> FALSE, listed |-> {},
     status |-> "none", audio_files_count |-> 0]

NoVoiceCall == VoiceCall("none", "none", "none")

\* what a method leaves behind: the directory, the flag and the ended call
Left(models, is_loaded, call) ==
    [models |-> models, is_loaded |-> is_loaded, call |-> call]

\* ParlerTTSService.create_voice_profile; failure names the statement the
\* environment lets fail: load_model returning False, sf.write of the
\* reference, the feature extraction, or json.dump into the opened profile
create_voice_profile(models, is_loaded, audio_files, voice_name, failure) ==
    LET loaded == is_loaded \/ failure # "load_model"
        combined_audio == Existing(audio_files)
        raised == VoiceCall("create_voice_profile", voice_name, "raised")
        withReference == [models EXCEPT ![voice_name].reference = TRUE]
    IN  IF ~loaded THEN Left(models, FALSE, raised)
        ELSE IF \E i \in 1..Len(combined_audio) : combined_audio[i] = "garbage"
        THEN Left(models, TRUE, raised)
        ELSE IF combined_audio = <<>> THEN Left(models, TRUE, raised)
        ELSE IF failure = "reference_write" THEN Left(models, TRUE, raised)
        ELSE IF failure = "features" THEN Left(withReference, TRUE, raised)
        ELSE IF failure = "profile_write"
        THEN Left([withReference EXCEPT ![voice_name].profile = "corrupt"],
                  TRUE, raised)
        ELSE Left([withReference EXCEPT ![voice_name].profile = "valid"], TRUE,
                  [VoiceCall("create_voice_profile", voice_name, "returned")
                     EXCEPT !.audio_files_count = Len(combined_audio)])

\* VoiceCloningService.train_voice_model: the loop over audio_files calls
\* self.audio_processor.process_audio for the first file that exists
train_voice_model(models, is_loaded, audio_files, model_name, failure) ==
    LET existing == Existing(audio_files)
        raised == [VoiceCall("train_voice_model", model_name, "raised")
                     EXCEPT !.audio_files = audio_files, !.failure = failure]
    IN  IF existing # <<>> /\ "process_audio" \notin AudioProcessingMethods
        THEN Left(models, is_loaded, raised)
        ELSE IF existing = <<>> THEN Left(models, is_loaded, raised)
        ELSE LET created == create_voice_profile(models, is_loaded, existing,
                                                 model_name, failure)
             IN  IF created.call.outcome = "raised"
                 THEN Left(created.models, created.is_loaded, raised)
                 ELSE Left(created.models, created.is_loaded,
                           [raised EXCEPT !.outcome = "returned",
                                          !.status = "completed",
                                          !.audio_files_count = Len(existing)])

\* VoiceCloningService.list_available_models: json.load of a profile that is
\* no JSON raises, and the except clause returns []
list_available_models(models) ==
    IF \E n \in ModelNames : models[n].profile = "corrupt" THEN {}
    ELSE {n \in ModelNames : models[n].profile = "valid"}

\* VoiceCloningService.delete_model; failure names the os.remove that raises
delete_model(models, model_name, failure) ==
    LET had == models[model_name]
        call == [VoiceCall("delete_model", model_name, "returned") EXCEPT
                   !.failure = failure,
                   !.existed = had.profile # "absent" \/ had.reference]
        withoutProfile == [models EXCEPT ![model_name].profile = "absent"]
        withoutBoth == [withoutProfile EXCEPT ![model_name].reference = FALSE]
    IN  IF had.profile # "absent" /\ failure = "profile"
        THEN [models |-> models, call |-> call]
        ELSE IF had.reference /\ failure = "reference"
        THEN [models |-> withoutProfile, call |-> call]
        ELSE [models |-> withoutBoth,
              call |-> [call EXCEPT !.deleted = call.existed]]

\* the most recent operation on each model name
Last(op, outcome) == [op |-> op, outcome |-> outcome]

CreateFailures ==
    {"none", "load_model", "reference_write", "features", "profile_write"}

CreateVoiceProfile ==
    \E name \in ModelNames, audio_files \in FileLists, failure \in CreateFailures :
        LET r == create_voice_profile(vc.models, vc.is_loaded, audio_files,
                                      name, failure)
        IN  /\ vc' = [vc EXCEPT
                        !.models = r.models,
                        !.is_loaded = r.is_loaded,
                        !.call = [r.call EXCEPT !.audio_files = audio_files,
                                                !.failure = failure],
                        !.last[name] = Last("create_voice_profile",
                                            r.call.outcome)]
            /\ UNCHANGED <<fs, calls, nextId, an, svc, dsp>>

TrainVoiceModel ==
    \E name \in ModelNames, audio_files \in FileLists, failure \in CreateFailures :
        LET r == train_voice_model(vc.models, vc.is_loaded, audio_files, name,
                                   failure)
        IN  /\ vc' = [vc EXCEPT !.models = r.models,
                                !.is_loaded = r.is_loaded,
                                !.call = r.call]
            /\ UNCHANGED <<fs, calls, nextId, an, svc, dsp>>

DeleteModel ==
    \E name \in ModelNames, failure \in {"none", "profile", "reference"} :
        LET r == delete_model(vc.models, name, failure)
        IN  /\ vc' = [vc EXCEPT
                        !.models = r.models,
                        !.call = r.call,
                        !.last[name] = Last("delete_model",
                                            IF r.call.deleted THEN "true"
                                            ELSE "false")]
            /\ UNCHANGED <<fs, calls, nextId, an, svc, dsp>>

ListAvailableModels ==
    /\ vc' = [vc EXCEPT
                !.call = [VoiceCall("list_available_models", "none", "returned")
                            EXCEPT !.listed = list_available_models(vc.models)]]
    /\ UNCHANGED <<fs, calls, nextId, an, svc, dsp>>

InitVoice ==
    /\ fs = InitialFiles
    /\ calls = [c \in Calls |-> IdleFrame]
    /\ nextId = 1
    /\ an = NoAnalysis
    /\ svc = Service
    /\ dsp = NoDsp
    /\ vc = [pc |-> "on", models |-> EmptyModelsDir, is_loaded |-> FALSE,
             call |-> NoVoiceCall,
             last |-> [n \in ModelNames |-> Last("none", "none")]]

NextVoice ==
    CreateVoiceProfile \/ TrainVoiceModel \/ DeleteModel \/ ListAvailableModels

SpecVoice == InitVoice /\ [][NextVoice]_vars

Init ==
    /\ fs = InitialFiles
    /\ calls = [c \in Calls |-> IdleFrame]
    /\ nextId = 1
    /\ an = NoAnalysis
    /\ svc = Service
    /\ dsp = NoDsp
    /\ vc = NoVoice

Next ==
    \E c \in Calls :
        \/ StartEnhance(c)
        \/ StartProcess(c)
        \/ Decode(c)
        \/ WriteRaw(c)
        \/ LoadStep(c)
        \/ NoiseStep(c)
        \/ NormalizeStep(c)
        \/ CompressStep(c)
        \/ EqStep(c)
        \/ ResampleStep(c)
        \/ WriteStep(c)

Spec == Init /\ [][Next]_vars

\* ------------------------------------------------------- concurrent calls
\* The four file-writing methods called on one service object from several
\* threads: a call may start while others are under way, and the steps of
\* the calls interleave.

\* the files and payloads the concurrent callers name
SharedInputs == {ClientPath(2), GarbagePath}

SharedPayloads ==
    {Payload(TRUE, "wav", 200, 44100, 1), Payload(TRUE, "garbage", 0, 0, 1)}

\* what librosa.effects.trim may keep of a buffer: all of it or a part
TrimmedLens(len) == {len \div 2, len}

\* f"trimmed_{uuid.uuid4()}.wav" under processed_dir
TrimmedPath(id) == Path(svc.processed_dir, "trimmed", 0, id)

\* f"converted_{uuid.uuid4()}.{output_format}" under processed_dir
ConvertedPath(id) == Path(svc.processed_dir, "converted", 0, id)

\* the except clauses of trim_silence and of convert_format
TrimExcept(f, stage) ==
    [f EXCEPT !.pc = "done", !.outcome = "raised", !.failed = stage]

ConvertExcept(f, stage) ==
    [f EXCEPT !.pc = "done", !.outcome = "raised", !.failed = stage]

\* calls are numbered in the order they arrive; none waits for another
Arrive(c) ==
    /\ calls[c].pc = "idle"
    /\ \A d \in Calls : d < c => calls[d].pc # "idle"

\* the paths a caller can name: the client's files and what has been written
Nameable == SharedInputs \cup (DOMAIN fs \ DOMAIN InitialFiles)

BeginEnhance(c) ==
    /\ Arrive(c)
    /\ \E p \in Nameable :
          calls' = [calls EXCEPT ![c] =
                      [IdleFrame EXCEPT !.op = "enhance_audio", !.pc = "load",
                                        !.input_path = p]]
    /\ UNCHANGED <<fs, nextId, an, svc, dsp, vc>>

BeginProcess(c) ==
    /\ Arrive(c)
    /\ \E p \in SharedPayloads :
          calls' = [calls EXCEPT ![c] =
                      [IdleFrame EXCEPT !.op = "process_recorded_audio",
                                        !.pc = "p_decode", !.payload = p]]
    /\ UNCHANGED <<fs, nextId, an, svc, dsp, vc>>

BeginTrim(c) ==
    /\ Arrive(c)
    /\ \E p \in Nameable :
          calls' = [calls EXCEPT ![c] =
                      [IdleFrame EXCEPT !.op = "trim_silence", !.pc = "t_load",
                                        !.input_path = p]]
    /\ UNCHANGED <<fs, nextId, an, svc, dsp, vc>>

BeginConvert(c) ==
    /\ Arrive(c)
    /\ \E p \in Nameable :
          calls' = [calls EXCEPT ![c] =
                      [IdleFrame EXCEPT !.op = "convert_format", !.pc = "c_load",
                                        !.input_path = p]]
    /\ UNCHANGED <<fs, nextId, an, svc, dsp, vc>>

\* lines 294-297 of trim_silence: librosa.load and librosa.effects.trim
TrimLoad(c) ==
    /\ calls[c].pc = "t_load"
    /\ LET f == calls[c]
           r == Load(fs, f.input_path)
       IN  IF r.ok
           THEN \E kept \in TrimmedLens(r.buf.len) :
                   calls' = [calls EXCEPT ![c] =
                               [f EXCEPT !.buf = [Apply(r.buf, "trim") EXCEPT
                                                    !.len = kept],
                                         !.pc = "t_write"]]
           ELSE calls' = [calls EXCEPT ![c] = TrimExcept(f, "load")]
    /\ UNCHANGED <<fs, nextId, an, svc, dsp, vc>>

\* lines 299-303 of trim_silence; ioFails: sf.write raised
TrimWrite(c) ==
    /\ calls[c].pc = "t_write"
    /\ nextId' = nextId + 1
    /\ \E ioFails \in BOOLEAN :
          LET f == calls[c]
              output_path == TrimmedPath(nextId)
          IN  IF ioFails
              THEN /\ calls' = [calls EXCEPT ![c] = TrimExcept(f, "write")]
                   /\ fs' = fs
              ELSE /\ fs' = [p \in DOMAIN fs \cup {output_path} |->
                               IF p = output_path
                               THEN AudioFile(f.buf.len, f.buf.sr, f.buf.ops,
                                              f.buf.src)
                               ELSE fs[p]]
                   /\ calls' = [calls EXCEPT ![c] =
                                  [f EXCEPT !.pc = "done",
                                            !.outcome = "returned",
                                            !.result = output_path,
                                            !.wrote = @ \cup {output_path}]]
    /\ UNCHANGED <<an, svc, dsp, vc>>

\* line 280 of convert_format: librosa.load
ConvertLoad(c) ==
    /\ calls[c].pc = "c_load"
    /\ LET f == calls[c]
           r == Load(fs, f.input_path)
       IN  calls' = [calls EXCEPT ![c] =
                       IF r.ok
                       THEN [f EXCEPT !.buf = Apply(r.buf, "convert"),
                                      !.pc = "c_write"]
                       ELSE ConvertExcept(f, "load")]
    /\ UNCHANGED <<fs, nextId, an, svc, dsp, vc>>

\* lines 282-286 of convert_format; ioFails: sf.write raised, as it does for
\* an output_format libsndfile does not know
ConvertWrite(c) ==
    /\ calls[c].pc = "c_write"
    /\ nextId' = nextId + 1
    /\ \E ioFails \in BOOLEAN :
          LET f == calls[c]
              output_path == ConvertedPath(nextId)
          IN  IF ioFails
              THEN /\ calls' = [calls EXCEPT ![c] = ConvertExcept(f, "write")]
                   /\ fs' = fs
              ELSE /\ fs' = [p \in DOMAIN fs \cup {output_path} |->
                               IF p = output_path
                               THEN AudioFile(f.buf.len, f.buf.sr, f.buf.ops,
                                              f.buf.src)
                               ELSE fs[p]]
                   /\ calls' = [calls EXCEPT ![c] =
                                  [f EXCEPT !.pc = "done",
                                            !.outcome = "returned",
                                            !.result = output_path,
                                            !.wrote = @ \cup {output_path}]]
    /\ UNCHANGED <<an, svc, dsp, vc>>

NextConcurrent ==
    \E c \in Calls :
        \/ BeginEnhance(c)
        \/ BeginProcess(c)
        \/ BeginTrim(c)
        \/ BeginConvert(c)
        \/ Decode(c)
        \/ WriteRaw(c)
        \/ LoadStep(c)
        \/ NoiseStep(c)
        \/ NormalizeStep(c)
        \/ CompressStep(c)
        \/ EqStep(c)
        \/ ResampleStep(c)
        \/ WriteStep(c)
        \/ TrimLoad(c)
        \/ TrimWrite(c)
        \/ ConvertLoad(c)
        \/ ConvertWrite(c)

SpecConcurrent == Init /\ [][NextConcurrent]_vars

\* ---------------------------------------------------------------- synthesis
\* VoiceCloningService.synthesize_speech and the ParlerTTSService method it
\* calls, from several threads, with the wall clock time.time() reads.

\* f"tts_output_{timestamp}.wav" under output_dir
TtsOutputPath(timestamp) == Path("output", "tts_output", 0, timestamp)

\* the texts the callers pass, by their number of characters
TextLengths == {10, 50}

\* _simulate_tts_output: max(2.0, len(text) * 0.1) seconds of samples
SimulatedSamples(text_length) ==
    ((IF text_length < 20 THEN 20 ELSE text_length) * sample_rate) \div 10

\* a call of synthesize_speech: its arguments, the audio it has generated and
\* the timestamp it has read
SynthFrame(pc, model_name, text_length) ==
    [op |-> "synthesize_speech", pc |-> pc, model_name |-> model_name,
     text_length |-> text_length, len |-> 0, timestamp |-> 0,
     outcome |-> "none", result |-> NoPath, wrote |-> {}]

IdleSynth == SynthFrame("idle", "none", 0)

\* the except clauses of both synthesize_speech methods: log and re-raise
SynthExcept(f) == [f EXCEPT !.pc = "done", !.outcome = "raised"]

\* models_dir when the calls start: a model with both files and one whose
\* profile is no JSON
SynthModels ==
    [n \in ModelNames |->
        IF n = "anna" THEN ModelFiles("valid", TRUE)
        ELSE ModelFiles("corrupt", TRUE)]

BeginSynthesize(c) ==
    /\ Arrive(c)
    /\ \E name \in ModelNames \cup {"nobody"}, text_length \in TextLengths :
          calls' = [calls EXCEPT ![c] = SynthFrame("s_profile", name, text_length)]
    /\ UNCHANGED <<fs, nextId, an, svc, dsp, vc>>

\* lines 93-100 of VoiceCloningService.synthesize_speech: the profile path
\* and the test that it exists
SynthProfile(c) ==
    /\ calls[c].pc = "s_profile"
    /\ LET f == calls[c]
           found == /\ f.model_name \in ModelNames
                    /\ vc.models[f.model_name].profile # "absent"
       IN  calls' = [calls EXCEPT ![c] =
                       IF found THEN [f EXCEPT !.pc = "s_load"]
                       ELSE SynthExcept(f)]
    /\ UNCHANGED <<fs, nextId, an, svc, dsp, vc>>

\* lines 149-154 of ParlerTTSService.synthesize_speech: load_model when the
\* model is not loaded (loadFails: it returned False), then json.load
SynthLoad(c) ==
    /\ calls[c].pc = "s_load"
    /\ \E loadFails \in BOOLEAN :
          LET f == calls[c]
              loaded == vc.is_loaded \/ ~loadFails
              parses == vc.models[f.model_name].profile = "valid"
          IN  /\ vc' = [vc EXCEPT !.is_loaded = loaded]
              /\ calls' = [calls EXCEPT ![c] =
                             IF loaded /\ parses
                             THEN [f EXCEPT !.pc = "s_generate"]
                             ELSE SynthExcept(f)]
    /\ UNCHANGED <<fs, nextId, an, svc, dsp>>

\* lines 156-190: the text, the description, the simulated output and its
\* postprocessing
SynthGenerate(c) ==
    /\ calls[c].pc = "s_generate"
    /\ LET f == calls[c]
       IN  calls' = [calls EXCEPT ![c] =
                       [f EXCEPT !.len = SimulatedSamples(f.text_length),
                                 !.pc = "s_stamp"]]
    /\ UNCHANGED <<fs, nextId, an, svc, dsp, vc>>

\* line 193: timestamp = int(time.time())
SynthStamp(c) ==
    /\ calls[c].pc = "s_stamp"
    /\ LET f == calls[c]
       IN  calls' = [calls EXCEPT ![c] =
                       [f EXCEPT !.timestamp = vc.clock, !.pc = "s_write"]]
    /\ UNCHANGED <<fs, nextId, an, svc, dsp, vc>>

\* lines 194-200: sf.write(output_path, final_audio, self.sample_rate) and the
\* return; ioFails: sf.write raised
SynthWrite(c) ==
    /\ calls[c].pc = "s_write"
    /\ \E ioFails \in BOOLEAN :
          LET f == calls[c]
              output_path == TtsOutputPath(f.timestamp)
          IN  IF ioFails
              THEN /\ calls' = [calls EXCEPT ![c] = SynthExcept(f)]
                   /\ fs' = fs
              ELSE /\ fs' = [p \in DOMAIN fs \cup {output_path} |->
                               IF p = output_path
                               THEN AudioFile(f.len, sample_rate, <<"tts">>,
                                              output_path)
                               ELSE fs[p]]
                   /\ calls' = [calls EXCEPT ![c] =
                                  [f EXCEPT !.pc = "done",
                                            !.outcome = "returned",
                                            !.result = output_path,
                                            !.wrote = @ \cup {output_path}]]
    /\ UNCHANGED <<nextId, an, svc, dsp, vc>>

\* a second of wall-clock time passes
Tick ==
    /\ vc.clock < MaxClock
    /\ vc' = [vc EXCEPT !.clock = @ + 1]
    /\ UNCHANGED <<fs, calls, nextId, an, svc, dsp>>

InitSynthesize ==
    /\ fs = InitialFiles
    /\ calls = [c \in Calls |-> IdleSynth]
    /\ nextId = 1
    /\ an = NoAnalysis
    /\ svc = Service
    /\ dsp = NoDsp
    /\ vc = [pc |-> "on", models |-> SynthModels, is_loaded |-> FALSE, clock |-> 0]

NextSynthesize ==
    \/ Tick
    \/ \E c \in Calls :
          \/ BeginSynthesize(c)
          \/ SynthProfile(c)
          \/ SynthLoad(c)
          \/ SynthGenerate(c)
          \/ SynthStamp(c)
          \/ SynthWrite(c)

SpecSynthesize == InitSynthesize /\ [][NextSynthesize]_vars

\* ================================================================= claims

Frames == {calls[c] : c \in Calls}

Done(f) == f.pc = "done"

StageOrder ==
    <<"load", "nr", "normalize", "compress", "eq", "resample", "write">>

\* the call got as far as the write of the output file
ReachedWrite(f) ==
    \/ f.pc = "write"
    \/ f.failed = "write"
    \/ (Done(f) /\ f.outcome = "returned" /\ f.failed = "none")

\* what a signal of rate sr has been through when it is written, given the
\* branch the noise reducer took
ExpectedOps(sr, first) ==
    <<first, "normalize", "compress", "highpass", "boost">>
    \o (IF 2 * 8000 < sr THEN <<"lowpass">> ELSE <<>>)
    \o (IF sr # 22050 THEN <<"resample">> ELSE <<>>)

\* C1: the stages a call has run are always a prefix of load, noise
\* reduction, normalization, compression, equalization, resampling, write;
\* a call that reaches the write has run the first six, each once, and the
\* buffer it writes is the loaded input passed through each stage in turn.
C1_StagesInOrder ==
    \A f \in Frames :
        /\ f.trail = SubSeq(StageOrder, 1, Len(f.trail))
        /\ ReachedWrite(f) =>
              /\ Len(f.trail) >= 6
              /\ f.buf.src = f.input_path
              /\ f.buf.ops # <<>>
              /\ f.buf.ops[1] \in {"noisereduce", "highpass_fallback"}
              /\ f.buf.ops = ExpectedOps(fs[f.input_path].sr, f.buf.ops[1])
              /\ f.buf.sr = 22050
              /\ (Done(f) /\ f.failed = "none") =>
                    /\ f.trail = StageOrder
                    /\ fs[f.result] = AudioFile(f.buf.len, 22050, f.buf.ops,
                                                f.input_path)

\* C1 witness: a call wrote its output after a resampling, another without one
C1_Witness ==
    \E f, g \in Frames :
        /\ Done(f) /\ f.failed = "none" /\ f.trail = StageOrder
        /\ fs[f.input_path].sr = 44100
        /\ Done(g) /\ g.failed = "none" /\ fs[g.input_path].sr = 22050

\* C2: _reduce_noise never propagates an error to enhance_audio.
C2_NoiseReducerNeverRaises ==
    \A f \in Frames : f.failed # "nr"

FallbackStages == {"nr", "normalize", "compress", "eq", "resample", "write"}

\* C3: when the noise reducer's fallback, the normalizer, the compressor,
\* the equalizer, the resampler or the output write fails, the call returns
\* the input path, which still holds the unenhanced recording, and the call
\* has written no enhanced file; process_recorded_audio then returns the path
\* of the raw recording it wrote and does not raise.
C3_FallbackToOriginal ==
    \A f \in Frames :
        (Done(f) /\ f.failed \in FallbackStages) =>
            /\ f.outcome = "returned"
            /\ f.result = f.input_path
            /\ f.result \in DOMAIN fs
            /\ fs[f.result].kind = "audio"
            /\ \A p \in f.wrote : p.dir # "processed"
            /\ f.op = "process_recorded_audio" =>
                  /\ f.result.dir = "uploads"
                  /\ f.wrote = {f.result}
                  /\ fs[f.result].len = f.payload.len
                  /\ fs[f.result].sr = f.payload.sr

\* C3 witness: a process_recorded_audio call whose compressor failed, and an
\* enhance_audio call whose output write failed
C3_Witness ==
    \E f, g \in Frames :
        /\ Done(f) /\ f.op = "process_recorded_audio" /\ f.failed = "compress"
        /\ Done(g) /\ g.op = "enhance_audio" /\ g.failed = "write"

\* C4 as claimed: a failure of a stage other than noise reduction makes
\* enhance_audio raise.
C4_EnhancementFailureRaises ==
    \A f \in Frames :
        (Done(f) /\ f.failed \in FallbackStages \ {"nr"}) => f.outcome = "raised"

\* C4 amended: enhance_audio never raises; it returns the input path exactly
\* when a stage failed and otherwise the path of the file it has just
\* written under the processed directory.
C4_FailureReturnsInputPath ==
    \A f \in Frames :
        (Done(f) /\ f.failed \notin {"decode", "write_raw"}) =>
            /\ f.outcome = "returned"
            /\ (f.failed # "none") <=> (f.result = f.input_path)
            /\ f.failed = "none" =>
                  /\ f.result.dir = "processed"
                  /\ f.result \in f.wrote

\* C4 witness: an enhance_audio call whose equalizer failed after a call that
\* succeeded
C4_Witness ==
    \E f, g \in Frames :
        /\ Done(f) /\ f.op = "enhance_audio" /\ f.failed = "eq"
        /\ f.result = f.input_path
        /\ Done(g) /\ g.failed = "none" /\ g.result # g.input_path

Undecodable(payload) == ~payload.b64 \/ payload.fmt = "garbage"

Unreadable(path) == path \notin DOMAIN fs \/ fs[path].kind # "audio"

\* C10 as claimed: an input that cannot be decoded ends the call with an
\* error raised to the caller, no stage run and nothing written.
C10_DecodeErrorSurfaced ==
    \A f \in Frames :
        (Done(f) /\ f.failed \in {"decode", "load"}) =>
            /\ f.outcome = "raised"
            /\ f.trail = <<>>
            /\ f.wrote = {}

\* C10 amended: process_recorded_audio on a payload that is not base64 or
\* that neither decoder reads raises without writing a raw file or calling
\* enhance_audio; enhance_audio on a path that holds no audio runs no stage
\* and writes nothing, and returns the input path instead of raising.
C10_DecodeFailure ==
    \A f \in Frames :
        Done(f) =>
            /\ (f.op = "process_recorded_audio" /\ Undecodable(f.payload)) =>
                  f.failed = "decode"
            /\ (f.op = "enhance_audio" /\ Unreadable(f.input_path)) =>
                  f.failed = "load"
            /\ f.failed = "decode" =>
                  /\ f.outcome = "raised"
                  /\ f.input_path = NoPath
                  /\ f.trail = <<>>
                  /\ f.wrote = {}
            /\ f.failed = "load" =>
                  /\ f.outcome = "returned"
                  /\ f.result = f.input_path
                  /\ f.trail = <<>>
                  /\ f.wrote = {}

\* C10 witness: one call given bytes no decoder reads, one given a file that
\* holds no audio
C10_Witness ==
    \E f, g \in Frames :
        /\ Done(f) /\ f.payload.b64 /\ f.payload.fmt = "garbage"
        /\ Done(g) /\ g.op = "enhance_audio" /\ g.input_path = GarbagePath

\* ------------------------------------------------------- analysis claims

Zero(x) == ~x.nan /\ x.v = 0

InUnit(x) == ~x.nan /\ 0 <= x.v /\ x.v <= One

\* analyze_audio was called on a file a step of it fails on
AnalysisFails ==
    \/ an.file.kind # "audio"
    \/ (an.file.y = <<>> /\ an.empty_raises)

\* C5: analyze_audio never raises; when a step inside it fails it returns a
\* record with an error indicator, duration 0, sample_rate 0,
\* signal_quality 0.0 and noise_level 1.0, and otherwise a record without an
\* error indicator.
C5_AnalyzeNeverRaises ==
    an.pc = "analyzed" =>
        /\ ~an.out.raised
        /\ AnalysisFails =>
              /\ "error" \in DOMAIN an.out.record
              /\ an.out.record.duration.num = 0
              /\ an.out.record.sample_rate = 0
              /\ Zero(an.out.record.signal_quality)
              /\ an.out.record.noise_level = F(One)
        /\ ~AnalysisFails => "error" \notin DOMAIN an.out.record

\* C5 witness: analyze_audio has returned for an undecodable file
C5_Witness ==
    /\ an.pc = "analyzed"
    /\ an.file.kind = "garbage"
    /\ "error" \in DOMAIN an.out.record

\* the segment length of the claim: the largest n with n <= rate / 2 and
\* n <= length / 4
SegmentLength(y, sr) ==
    CHOOSE n \in 0..Len(y) :
        /\ 2 * n <= sr /\ 4 * n <= Len(y)
        /\ ~(2 * (n + 1) <= sr /\ 4 * (n + 1) <= Len(y))

\* the mean square of the first n and the last n samples
EdgeMeanSquare(y, n) ==
    (Sum([i \in 1..n |-> y[i] * y[i]])
       + Sum([i \in 1..n |-> y[Len(y) - n + i] * y[Len(y) - n + i]]))
    \div (2 * n)

\* C6: _estimate_noise_level returns a value in [0, 1]: 0.1 when the segment
\* length n is 0, and otherwise 1.0 when the RMS of the first n and last n
\* samples exceeds 1.0 and that RMS when it does not.
C6_NoiseLevelInUnitRange ==
    an.pc = "estimated" =>
        LET y == an.file.y
            n == SegmentLength(y, an.file.sr)
        IN  /\ InUnit(an.out)
            /\ n = 0 => an.out.v = One \div 10
            /\ n > 0 =>
                  IF EdgeMeanSquare(y, n) > One * One THEN an.out.v = One
                  ELSE /\ an.out.v * an.out.v <= EdgeMeanSquare(y, n)
                       /\ EdgeMeanSquare(y, n) < (an.out.v + 1) * (an.out.v + 1)

\* C6 witness: the estimate of a signal whose edges are louder than 1.0 was
\* clamped, with a non-empty noise segment
C6_Witness ==
    /\ an.pc = "estimated"
    /\ SegmentLength(an.file.y, an.file.sr) > 0
    /\ EdgeMeanSquare(an.file.y, SegmentLength(an.file.y, an.file.sr)) > One * One
    /\ an.out.v = One

\* C7: _calculate_signal_quality returns a value in [0, 1], each sub-score
\* lies in [0, 1], and the value is 0.5 snr + 0.3 dynamic + 0.2 clarity
\* clamped to at most 1.0.
C7_QualityInUnitRange ==
    an.pc = "scored" =>
        /\ ~an.out.raised
        /\ InUnit(an.out.snr_score)
        /\ InUnit(an.out.dynamic_score)
        /\ InUnit(an.out.clarity_score)
        /\ InUnit(an.out.quality)
        /\ an.out.quality.v =
              Min((5 * an.out.snr_score.v + 3 * an.out.dynamic_score.v
                     + 2 * an.out.clarity_score.v) \div 10, One)

AllZero(y) == \A i \in 1..Len(y) : y[i] = 0

\* analyze_audio has returned for a silent signal with a noise segment of at
\* least one sample
AnalyzedSilence ==
    /\ an.pc = "analyzed"
    /\ an.file.kind = "audio"
    /\ AllZero(an.file.y)
    /\ SegmentLength(an.file.y, an.file.sr) > 0

\* C8 as claimed: for such a signal analyze returns duration length / rate,
\* noise_level 0 and signal_quality 0.0.
C8_SilenceScoresZero ==
    AnalyzedSilence =>
        /\ "error" \notin DOMAIN an.out.record
        /\ an.out.record.duration.num * an.file.sr
              = Len(an.file.y) * an.out.record.duration.den
        /\ Zero(an.out.record.noise_level)
        /\ Zero(an.out.record.signal_quality)

\* C8 amended: for such a signal analyze returns duration length / rate,
\* noise_level 0 and signal_quality 0.5, the weight of the SNR sub-score,
\* which is 1.0 when the noise level is 0.
C8_SilenceScoresHalf ==
    AnalyzedSilence =>
        /\ "error" \notin DOMAIN an.out.record
        /\ an.out.record.duration.num * an.file.sr
              = Len(an.file.y) * an.out.record.duration.den
        /\ Zero(an.out.record.noise_level)
        /\ an.out.record.signal_quality = F(One \div 2)

\* C8 witness: analyze_audio has returned for five zero samples at 8 Hz
C8_Witness ==
    /\ AnalyzedSilence
    /\ Len(an.file.y) = 5
    /\ an.file.sr = 8

MetricNames ==
    {"avg_rms", "noise_level", "signal_quality", "spectral_centroid",
     "spectral_bandwidth", "spectral_rolloff", "zero_crossing_rate",
     "dynamic_range"}

\* C9: for an empty buffer analyze returns a record with no error indicator
\* in which every metric value is 0.
C9_EmptyBufferAllZero ==
    (an.pc = "analyzed" /\ an.file.kind = "audio" /\ an.file.y = <<>>) =>
        /\ ~an.out.raised
        /\ "error" \notin DOMAIN an.out.record
        /\ \A m \in MetricNames : Zero(an.out.record[m])

\* ----------------------------------------------------------- C11 normalizer

\* the numerical tolerance of a comparison of two buffers: 0.001
Tolerance == Unit \div 1000

Close(a, b) ==
    /\ Len(a) = Len(b)
    /\ \A i \in 1..Len(a) : Abs(a[i] - b[i]) <= Tolerance

\* C11: the normalizer applied to its own output gives that output again,
\* within the numerical tolerance (on the empty buffer both applications
\* raise), and an all-zero buffer is returned unchanged
C11_NormalizerIdempotent ==
    /\ dsp.pc = "renormalized" =>
          /\ dsp.again.ok = dsp.out.ok
          /\ Close(dsp.again.y, dsp.out.y)
    /\ dsp.pc \in {"normalized", "renormalized"} /\ dsp.y # <<>> /\ AllZero(dsp.y) =>
          dsp.out = Returned(dsp.y)

\* a buffer whose first normalisation changed it has been normalised twice
C11_Witness ==
    /\ dsp.pc = "renormalized"
    /\ dsp.out.ok
    /\ ~Close(dsp.out.y, dsp.y)
    /\ dsp.again.ok

\* ----------------------------------------------------------- C12 compressor

\* C12: where the smoothed envelope e exceeds 0.5 the gain is
\* (0.5 + (e - 0.5) / 4) / e, elsewhere (zero and negative e included) it is
\* exactly 1; so the gain lies in (0, 1], the output is as long as the input
\* and no output sample is larger in magnitude than its input sample
C12_GainLaw ==
    (dsp.pc = "compressed" /\ dsp.out.ok) =>
        /\ Len(dsp.out.y) = Len(dsp.y)
        /\ \A i \in 1..Len(dsp.y) :
              LET e == dsp.envelope_smooth[i]
                  g == dsp.gain[i]
                  half == Unit \div 2
              IN  /\ e > half => g = Quot((half + Quot(e - half, 4)) * Unit, e)
                  /\ e <= half => g = Unit
                  /\ 0 < g /\ g <= Unit
                  /\ Abs(dsp.out.y[i]) <= Abs(dsp.y[i])

\* a compressed buffer whose smoothed envelope lies above the threshold at one
\* sample, between zero and the threshold at another and below zero at a third
C12_Witness ==
    /\ dsp.pc = "compressed"
    /\ dsp.out.ok
    /\ \E i \in 1..Len(dsp.y) :
          /\ dsp.envelope_smooth[i] > Unit \div 2
          /\ dsp.gain[i] < Unit
          /\ dsp.y[i] # 0
    /\ \E i \in 1..Len(dsp.y) :
          dsp.envelope_smooth[i] > 0 /\ dsp.envelope_smooth[i] <= Unit \div 2
    /\ \E i \in 1..Len(dsp.y) : dsp.envelope_smooth[i] < 0

\* ------------------------------------------------------------ C13 resampler

EnhancedPaths == {p \in DOMAIN fs : p.prefix = "enhanced"}

\* C13: every file enhance_audio has written is stored at 22050 Hz and its
\* samples are at that rate: the buffer was resampled from the rate of the
\* input file exactly when that rate is not 22050 Hz, and has the length of
\* the input when it is
C13_OutputAtTargetRate ==
    /\ \A p \in EnhancedPaths :
          LET file == fs[p]
              source == fs[file.src]
          IN  /\ file.sr = 22050
              /\ ("resample" \in {file.ops[i] : i \in 1..Len(file.ops)})
                    <=> source.sr # 22050
              /\ file.len = IF source.sr = 22050 THEN source.len
                            ELSE ResampledLen(source.len, source.sr, 22050)
    /\ \A f \in Frames :
          (Done(f) /\ f.failed = "none" /\ f.result \in EnhancedPaths) =>
              /\ f.buf.sr = 22050
              /\ f.buf.len = fs[f.result].len

\* an output resampled up from 16000 Hz and one passed through at 22050 Hz
C13_Witness ==
    \E p, q \in EnhancedPaths :
        /\ fs[fs[p].src].sr = 16000 /\ fs[p].len > fs[fs[p].src].len
        /\ fs[fs[q].src].sr = 22050 /\ fs[q].len = fs[fs[q].src].len

\* ---------------------------------------------------------- C14 concurrency

\* the paths a step has written for call c
Written(c) == calls'[c].wrote \ calls[c].wrote

\* C14: however the steps of concurrent enhance_audio, trim_silence,
\* convert_format and process_recorded_audio calls interleave, no two calls
\* write the same path, a call writes neither to a path another call has been
\* given as its input nor over a file that exists, and the fields of the
\* service object keep the values __init__ gave them
C14_NoSharedWrites ==
    /\ [](/\ \A c, d \in Calls : c # d => calls[c].wrote \cap calls[d].wrote = {}
          /\ svc = Service)
    /\ [][/\ \A c, d \in Calls :
                c # d => calls[d].input_path \notin Written(c)
          /\ \A c \in Calls : Written(c) \cap DOMAIN fs = {}
          /\ svc' = svc]_vars

\* trim_silence read the raw recording of a process_recorded_audio call and
\* wrote its output while that call was still enhancing the recording
C14_Witness ==
    \E c, d \in Calls :
        /\ calls[c].op = "process_recorded_audio"
        /\ calls[c].pc = "write"
        /\ calls[c].wrote # {}
        /\ calls[d].op = "trim_silence"
        /\ calls[d].pc = "done"
        /\ calls[d].wrote # {}
        /\ calls[d].input_path \in calls[c].wrote

\* ------------------------------------------------------ C15 silence trimmer

\* the frames whose RMS is below threshold_db decibels referenced to full
\* scale
BelowFullScale(y, threshold_db) ==
    {t \in 1..NumFrames(y) :
        AmplitudeRatio(-threshold_db) * FrameRms(y)[t] < Unit}

\* the buffer without its leading and trailing frames of that kind
TrimmedToFullScale(y, threshold_db) ==
    LET loud == (1..NumFrames(y)) \ BelowFullScale(y, threshold_db)
        first == CHOOSE t \in loud : \A u \in loud : t <= u
        last == CHOOSE t \in loud : \A u \in loud : u <= t
    IN  IF loud = {} THEN <<>>
        ELSE SubSeq(y, first, Min(Len(y), last))

\* C15: trim_silence removes exactly the leading and trailing frames whose
\* RMS is below threshold_db referenced to full scale, no interior sample,
\* and an entirely silent buffer trims to length 0 without raising
C15_TrimsBelowFullScale ==
    dsp.pc = "trimmed" =>
        /\ dsp.out.ok
        /\ dsp.out.y = TrimmedToFullScale(dsp.y, dsp.threshold_db)
        /\ AllZero(dsp.y) => dsp.out.y = <<>>

\* ------------------------------------------------------------ C16 equalizer

\* the calls whose buffer has just left _apply_voice_eq
Equalized == {f \in Frames : f.pc = "resample"}

HasOp(b, op) == op \in {b.ops[i] : i \in 1..Len(b.ops)}

\* what the equalizer has appended to the stages before it
EqOps(b) == SubSeq(b.ops, 4, Len(b.ops))

\* C16 as stated: the output of _apply_voice_eq is the high-passed buffer
\* plus the band-passed boost, low-passed exactly when the Nyquist frequency
\* of the 22050 Hz target rate exceeds 8000 Hz, and has the length of the
\* input for every sample rate the pipeline accepts
C16_LowPassByTargetRate ==
    /\ \A f \in Equalized :
          /\ f.buf.len = fs[f.input_path].len
          /\ EqOps(f.buf) = <<"highpass", "boost">>
                \o (IF 2 * 8000 < 22050 THEN <<"lowpass">> ELSE <<>>)
    /\ \A f \in Frames : f.failed # "eq"

\* C16: the output of _apply_voice_eq is the high-passed buffer plus the
\* band-passed boost, low-passed exactly when the Nyquist frequency of the
\* rate of the buffer itself (the rate of the input file) exceeds 8000 Hz;
\* it has the length and the rate of the input, and the equalizer raises
\* only for an input rate of 6000 Hz or less
C16_LowPassBySourceRate ==
    /\ \A f \in Equalized :
          LET source == fs[f.input_path]
          IN  /\ f.buf.len = source.len
              /\ f.buf.sr = source.sr
              /\ EqOps(f.buf) = <<"highpass", "boost">>
                    \o (IF source.sr > 16000 THEN <<"lowpass">> ELSE <<>>)
    /\ \A f \in Frames : f.failed = "eq" => fs[f.input_path].sr <= 6000

\* a 16000 Hz buffer has left the equalizer without the low-pass, after a
\* call whose buffer was low-passed
C16_Witness ==
    \E f \in Equalized, g \in Frames :
        /\ fs[f.input_path].sr = 16000
        /\ ~HasOp(f.buf, "lowpass")
        /\ HasOp(f.buf, "boost")
        /\ Done(g) /\ g.failed = "none" /\ HasOp(g.buf, "lowpass")

\* ------------------------------------------------------------- C17 headroom

\* C17: no sample of the buffer _normalize_audio returns exceeds 0.95 in
\* magnitude
C17_PeakWithinHeadroom ==
    (dsp.pc = "normalized" /\ dsp.out.ok) =>
        \A i \in 1..Len(dsp.out.y) :
            100 * Abs(dsp.out.y[i]) <= HeadroomPct * Unit

\* ---------------------------------------------------------- C18 PCM scaling

RECURSIVE Pow2(_)
Pow2(n) == IF n <= 0 THEN 1 ELSE 2 * Pow2(n - 1)

\* the sample lies in [-1, 1]
InFullScale(x) ==
    IF x.e >= 0 THEN x.m = 0 \/ (x.e = 0 /\ Abs(x.m) = 1)
    ELSE Abs(x.m) <= Pow2(-x.e)

\* C18: of a WAV payload with integer PCM samples, every sample of the
\* buffer written as the raw recording is the integer divided by 32768
\* (16 bit) or by 2147483648 (32 bit), and so lies in [-1, 1]
C18_PcmScaled ==
    (dsp.pc = "decoded" /\ dsp.wav.dtype \in {"int16", "int32"}) =>
        LET bits == IF dsp.wav.dtype = "int16" THEN 15 ELSE 31
        IN  /\ dsp.out.y = Divided(dsp.wav, bits).y
            /\ \A i \in 1..Len(dsp.out.y) : InFullScale(dsp.out.y[i])

\* ------------------------------------------------------------- C19 training

\* the profile of the files can be created: each file that exists is audio
\* and the environment lets no statement of create_voice_profile fail
Creatable(call) ==
    /\ call.failure = "none"
    /\ \A i \in 1..Len(call.audio_files) : call.audio_files[i] # "garbage"

\* C19: train_voice_model given at least one file that exists, of which the
\* profile can be created, processes the files that exist and returns a
\* result of status completed whose audio_files_count is their number
C19_TrainingCompletes ==
    (vc.pc = "on" /\ vc.call.op = "train_voice_model"
        /\ Existing(vc.call.audio_files) # <<>>
        /\ Creatable(vc.call)) =>
            /\ vc.call.outcome = "returned"
            /\ vc.call.status = "completed"
            /\ vc.call.audio_files_count = Len(Existing(vc.call.audio_files))

\* ------------------------------------------------------ C20 model lifecycle

\* the names whose most recent operation was a create_voice_profile that
\* returned
LastCreated ==
    {n \in ModelNames : vc.last[n] = Last("create_voice_profile", "returned")}

\* C20: list_available_models returns exactly the names whose most recent
\* operation was a successful create_voice_profile; after delete_model(name)
\* neither file of name exists and name is not listed, and delete_model
\* returns True exactly when one of the two files existed before the call
C20_ListMatchesHistory ==
    /\ (vc.pc = "on" /\ vc.call.op = "list_available_models") =>
          vc.call.listed = LastCreated
    /\ (vc.pc = "on" /\ vc.call.op = "delete_model") =>
          /\ vc.models[vc.call.name] = ModelFiles("absent", FALSE)
          /\ vc.call.name \notin list_available_models(vc.models)
          /\ vc.call.deleted <=> vc.call.existed

\* ------------------------------------------------------ C21 synthesis paths

\* the calls of synthesize_speech that have returned a path
Synthesized ==
    {c \in Calls : calls[c].pc = "done" /\ calls[c].outcome = "returned"}

\* C21: two synthesize_speech calls that both return have written different
\* paths, and the file at the path a call returned holds the audio that call
\* generated
C21_DistinctOutputPaths ==
    /\ \A c, d \in Synthesized : c # d => calls[c].result # calls[d].result
    /\ \A c \in Synthesized : fs[calls[c].result].len = calls[c].len

====
